---- MODULE Spec2Model ----
(***************************************************************************)
(* Floating-PV cell temperature example                                    *)
(* (docs/examples/floating-pv/plot_floating_pv_cell_temperature.py).       *)
(*                                                                         *)
(* The script builds three aligned hourly series (plane-of-array           *)
(* irradiance, air temperature, wind speed), then loops over the           *)
(* heat_loss_coeffs dictionary: each iteration calls                       *)
(* pvlib.temperature.pvsyst_cell, relabels the index of the returned       *)
(* series to hour strings and plots it.                                    *)
(*                                                                         *)
(* pvsyst_cell itself is not part of the example file.  It is modelled     *)
(* from what the specification says of it: the compute contract (section   *)
(* 4.1: the defaults, the alignment of the series, the PVSyst equation     *)
(* sample by sample, which is also the equation of the example's           *)
(* docstring) and the design note (section 9) that the source does not     *)
(* validate the coefficient ranges and divides silently.                   *)
(*                                                                         *)
(* Numbers.  Temperatures (degC), irradiance (W/m2) and wind speed (m/s)   *)
(* are integers.  The coefficients u_c, u_v, alpha and eta_m are given in  *)
(* tenths (290 is 29.0, 9 is 0.9).  A computed cell temperature is an      *)
(* exact fraction <<num, den>> in lowest terms with den > 0; a division by *)
(* zero gives <<1, 0>>, <<-1, 0>> or <<0, 0>> (inf, -inf, nan).  Rounding  *)
(* of the floating-point evaluation is not modelled.                       *)
(***************************************************************************)
EXTENDS Integers, Sequences, FiniteSets, TLC

VARIABLES
    poa_global,        \* irradiance['poa_global']: [index, values]
    temp_air,          \* tmy['temp_air']:          [index, values]
    wind_speed,        \* tmy['wind_speed']:        [index, values]
    heat_loss_coeffs,  \* the dictionary, in insertion order: Seq of [u_c, u_v]
    pc,                \* position of the script
    k,                 \* loop position: key number in heat_loss_coeffs
    kwargs,            \* arguments of the latest pvsyst_cell call
    outcome,           \* what the latest pvsyst_cell call gave
    T_cell,            \* the script's T_cell
    lines              \* what plt.plot has drawn so far

vars == <<poa_global, temp_air, wind_speed, heat_loss_coeffs,
          pc, k, kwargs, outcome, T_cell, lines>>

\* ------------------------------------------------------------------ bounds

\* Longest series of the model (the script's day has 24 hourly samples).
MaxLen == 2

\* Largest number of entries of heat_loss_coeffs (the script's has 9).
MaxSets == 3

\* ------------------------------------------------------- program constants

\* 'default_PVSyst_coeffs_for_land_systems': [29.0, 0]
UC_DEFAULT_PVSYST == 290

\* 'open_structure_small_footprint_tracking_NL': [24.4, 6.5]
UC_OPEN_NL == 244

UV_OPEN_NL == 65

\* alpha=0.9 and eta_m=0.0 of compute's signature, in tenths
ALPHA_DEFAULT == 9

ETA_M_DEFAULT == 0

\* A keyword argument is the set of the values passed for it: empty when the
\* caller did not pass it, one value otherwise.
NoArg == {}

\* ------------------------------------------------------------- input sets

PoaValues == {0, 1000}

TempValues == {25, -5}

WindValues == {0, 1}

UcValues == {UC_DEFAULT_PVSYST, UC_OPEN_NL, 0, -50}

UvValues == {0, UV_OPEN_NL}

AlphaValues == {NoArg, {0}, {10}, {12}}

EtaValues == {NoArg, {2}, {10}, {15}}

\* Strictly increasing sequences of length n over 1..m (a series' timestamps
\* are unique and increasing).
RECURSIVE IncreasingSeqs(_, _)
IncreasingSeqs(n, m) ==
    IF n = 0 THEN {<<>>}
    ELSE IF m < n THEN {}
    ELSE IncreasingSeqs(n, m - 1)
         \cup {Append(s, m) : s \in IncreasingSeqs(n - 1, m - 1)}

\* An entry of a series' index is a timestamp, in minutes, or (once
\* relabelled) an hour label.
Timestamp(m) == [minute |-> m]

\* Every series of at most MaxLen samples with values in V.
SeriesOver(V) ==
    UNION {{[index |-> [i \in 1..n |-> Timestamp(ix[i])], values |-> vs] :
                ix \in IncreasingSeqs(n, MaxLen), vs \in [1..n -> V]}
           : n \in 0..MaxLen}

\* -------------------------------------------------------------- fractions

Abs(n) == IF n < 0 THEN -n ELSE n

RECURSIVE GCD(_, _)
GCD(a, b) == IF b = 0 THEN a ELSE GCD(b, a % b)

Sign(n) == IF n > 0 THEN 1 ELSE IF n < 0 THEN -1 ELSE 0

\* n/d in lowest terms with a positive denominator; n/0 is inf, -inf or nan.
Frac(n, d) ==
    IF d = 0 THEN <<Sign(n), 0>>
    ELSE LET g == GCD(Abs(n), Abs(d))
         IN  <<Sign(d) * (n \div g), Abs(d) \div g>>

FracLess(x, y) == x[1] * y[2] < y[1] * x[2]

\* --------------------------------------------------------- the computation

\* The value of a keyword argument: the default when it was not passed.
ArgOr(arg, default) == IF arg = NoArg THEN default ELSE CHOOSE v \in arg : TRUE

\* Mutant of Aligned: only the lengths are compared.
Aligned_ByLength(poa, ta, ws) ==
    /\ Len(poa.index) = Len(ta.index)
    /\ Len(poa.index) = Len(ws.index)

\* The three series share one index: same timestamps, hence same length.
Aligned(poa, ta, ws) ==
    /\ poa.index = ta.index
    /\ poa.index = ws.index

\* Mutant of heat_input: the efficiency added instead of subtracted.
heat_input_plus(E, alpha, eta_m) == alpha * E * (10 + eta_m)

\* Mutant of heat_input: (eta_m - 1) for (1 - eta_m).
heat_input_flipped(E, alpha, eta_m) == alpha * E * (eta_m - 10)

\* alpha * E * (1 - eta_m), times 100.
heat_input(E, alpha, eta_m) == alpha * E * (10 - eta_m)

\* Mutant of total_loss_factor: the wind term subtracted.
total_loss_factor_minus(u_c, u_v, WS) == u_c - u_v * WS

\* u_c + u_v * WS, times 10.
total_loss_factor(u_c, u_v, WS) == u_c + u_v * WS

\* Mutant of CellTemp: the denominator's parentheses forgotten,
\* T_a + alpha * E * (1 - eta_m) / u_c + u_v * WS.
CellTemp_NoParens(E, Ta, WS, u_c, u_v, alpha, eta_m) ==
    Frac(Ta * 10 * u_c + alpha * E * (10 - eta_m) + u_v * WS * u_c, 10 * u_c)

\* T_a + alpha * E * (1 - eta_m) / (u_c + u_v * WS).
CellTemp(E, Ta, WS, u_c, u_v, alpha, eta_m) ==
    LET loss == 10 * total_loss_factor(u_c, u_v, WS)
    IN  Frac(Ta * loss + heat_input(E, alpha, eta_m), loss)

Failure(error) == [status |-> error, index |-> <<>>, values |-> <<>>]

\* Mutant of CellTemperatureSeries: the last sample is not computed.
CellTemperatureSeries_OffByOne(poa, ta, ws, u_c, u_v, alpha, eta_m) ==
    [status |-> "ok",
     index  |-> poa.index,
     values |-> [i \in 1..(Len(poa.values) - 1) |->
                    CellTemp(poa.values[i], ta.values[i], ws.values[i],
                             u_c, u_v, alpha, eta_m)]]

\* The series a successful call returns: the index of poa_global, one value
\* per sample.
CellTemperatureSeries(poa, ta, ws, u_c, u_v, alpha, eta_m) ==
    [status |-> "ok",
     index  |-> poa.index,
     values |-> [i \in 1..Len(poa.values) |->
                    CellTemp(poa.values[i], ta.values[i], ws.values[i],
                             u_c, u_v, alpha, eta_m)]]

\* compute(poa_global, temp_air, wind_speed, u_c, u_v, alpha=0.9, eta_m=0.0).
\* Series that do not share one index are refused before any sample is
\* computed.  The coefficients are used as they are given: their ranges are
\* not checked.
pvsyst_cell(poa, ta, ws, u_c, u_v, alpha_arg, eta_arg) ==
    LET alpha == ArgOr(alpha_arg, ALPHA_DEFAULT)
        eta_m == ArgOr(eta_arg, ETA_M_DEFAULT)
    IN  IF ~Aligned(poa, ta, ws)
        THEN Failure("MisalignedSeries")
        ELSE CellTemperatureSeries(poa, ta, ws, u_c, u_v, alpha, eta_m)

NoCall == [u_c |-> 0, u_v |-> 0, alpha |-> NoArg, eta_m |-> NoArg]

NoSeries == [index |-> <<>>, values |-> <<>>]

\* --------------------------------------- the computation on arbitrary inputs

\* Any three series, aligned or not; nothing called yet.
InitCompute ==
    /\ poa_global \in SeriesOver(PoaValues)
    /\ temp_air \in SeriesOver(TempValues)
    /\ wind_speed \in SeriesOver(WindValues)
    /\ heat_loss_coeffs = <<>>
    /\ pc = "compute"
    /\ k = 0
    /\ kwargs = NoCall
    /\ outcome = Failure("none")
    /\ T_cell = NoSeries
    /\ lines = <<>>

\* One call of compute on the series, with any coefficients.
Compute ==
    /\ pc = "compute"
    /\ \E u_c \in UcValues, u_v \in UvValues,
          alpha \in AlphaValues, eta_m \in EtaValues :
          /\ kwargs' = [u_c |-> u_c, u_v |-> u_v, alpha |-> alpha, eta_m |-> eta_m]
          /\ outcome' = pvsyst_cell(poa_global, temp_air, wind_speed,
                                    u_c, u_v, alpha, eta_m)
    /\ pc' = "returned"
    /\ UNCHANGED <<poa_global, temp_air, wind_speed, heat_loss_coeffs,
                   k, T_cell, lines>>

NextCompute == Compute

SpecCompute == InitCompute /\ [][NextCompute]_vars

\* --------------------------------------------------------------- the script

\* The index of the selected period: hourly timestamps from 00:00, in minutes.
TmyIndex(n) == [i \in 1..n |-> Timestamp(60 * (i - 1))]

Digits == <<"0", "1", "2", "3", "4", "5", "6", "7", "8", "9">>

\* strftime("%H") of one timestamp: the hour of the day, two digits.
strftime_H(t) ==
    LET h == (t.minute \div 60) % 24
    IN  [hour |-> Digits[(h \div 10) + 1] \o Digits[(h % 10) + 1]]

\* The coefficient sets an entry of heat_loss_coeffs is drawn from: two rows
\* of the table, and a row with no heat loss at all (u_c = 0), which the
\* contract of compute rejects.
CoeffSets ==
    {[u_c |-> UC_DEFAULT_PVSYST, u_v |-> 0],
     [u_c |-> UC_OPEN_NL, u_v |-> UV_OPEN_NL],
     [u_c |-> 0, u_v |-> 0]}

\* The weather series and the irradiance derived from them share tmy's index;
\* the dictionary has at least one entry; the loop is about to start.
Init ==
    /\ \E n \in 1..MaxLen :
          /\ poa_global \in {[index |-> TmyIndex(n), values |-> vs] :
                                vs \in [1..n -> PoaValues]}
          /\ temp_air \in {[index |-> TmyIndex(n), values |-> vs] :
                              vs \in [1..n -> TempValues]}
          /\ wind_speed \in {[index |-> TmyIndex(n), values |-> vs] :
                                vs \in [1..n -> WindValues]}
    /\ heat_loss_coeffs \in UNION {[1..m -> CoeffSets] : m \in 1..MaxSets}
    /\ pc = "call"
    /\ k = 1
    /\ kwargs = NoCall
    /\ outcome = Failure("none")
    /\ T_cell = NoSeries
    /\ lines = <<>>

\* Mutant of CallPvsystCell: a loop that stops at a set the contract rejects.
CallPvsystCell_Rejecting ==
    /\ pc = "call"
    /\ LET c == heat_loss_coeffs[k]
           r == pvsyst_cell(poa_global, temp_air, wind_speed,
                            c.u_c, c.u_v, NoArg, NoArg)
       IN  /\ kwargs' = [u_c |-> c.u_c, u_v |-> c.u_v,
                         alpha |-> NoArg, eta_m |-> NoArg]
           /\ outcome' = r
           /\ IF r.status = "ok" /\ c.u_c > 0
              THEN /\ T_cell' = [index |-> r.index, values |-> r.values]
                   /\ pc' = "relabel"
              ELSE /\ T_cell' = T_cell
                   /\ pc' = "raised"
    /\ UNCHANGED <<poa_global, temp_air, wind_speed, heat_loss_coeffs,
                   k, lines>>

\* Mutant of CallPvsystCell: u_v is read from the entry of the iteration
\* before (a stale loop variable).
CallPvsystCell_StaleUv ==
    /\ pc = "call"
    /\ LET c == heat_loss_coeffs[k]
           b == heat_loss_coeffs[IF k > 1 THEN k - 1 ELSE k]
           r == pvsyst_cell(poa_global, temp_air, wind_speed,
                            c.u_c, b.u_v, NoArg, NoArg)
       IN  /\ kwargs' = [u_c |-> c.u_c, u_v |-> b.u_v,
                         alpha |-> NoArg, eta_m |-> NoArg]
           /\ outcome' = r
           /\ IF r.status = "ok"
              THEN /\ T_cell' = [index |-> r.index, values |-> r.values]
                   /\ pc' = "relabel"
              ELSE /\ T_cell' = T_cell
                   /\ pc' = "raised"
    /\ UNCHANGED <<poa_global, temp_air, wind_speed, heat_loss_coeffs,
                   k, lines>>

\* T_cell = pvlib.temperature.pvsyst_cell(poa_global=..., temp_air=...,
\*     wind_speed=..., u_c=heat_loss_coeffs[coeffs][0],
\*     u_v=heat_loss_coeffs[coeffs][1])
\* An exception is not caught anywhere: it ends the script.
CallPvsystCell ==
    /\ pc = "call"
    /\ LET c == heat_loss_coeffs[k]
           r == pvsyst_cell(poa_global, temp_air, wind_speed,
                            c.u_c, c.u_v, NoArg, NoArg)
       IN  /\ kwargs' = [u_c |-> c.u_c, u_v |-> c.u_v,
                         alpha |-> NoArg, eta_m |-> NoArg]
           /\ outcome' = r
           /\ IF r.status = "ok"
              THEN /\ T_cell' = [index |-> r.index, values |-> r.values]
                   /\ pc' = "relabel"
              ELSE /\ T_cell' = T_cell
                   /\ pc' = "raised"
    /\ UNCHANGED <<poa_global, temp_air, wind_speed, heat_loss_coeffs,
                   k, lines>>

\* Mutant of Relabel: T_cell shares its index with tmy, and the index is
\* rewritten in place.
Relabel_SharedIndex ==
    /\ pc = "relabel"
    /\ T_cell' = [T_cell EXCEPT
                    !.index = [i \in 1..Len(T_cell.index) |->
                                  strftime_H(T_cell.index[i])]]
    /\ temp_air' = [temp_air EXCEPT !.index = T_cell'.index]
    /\ pc' = "plot"
    /\ UNCHANGED <<poa_global, wind_speed, heat_loss_coeffs,
                   k, kwargs, outcome, lines>>

\* T_cell.index = T_cell.index.strftime("%H")
Relabel ==
    /\ pc = "relabel"
    /\ T_cell' = [T_cell EXCEPT
                    !.index = [i \in 1..Len(T_cell.index) |->
                                  strftime_H(T_cell.index[i])]]
    /\ pc' = "plot"
    /\ UNCHANGED <<poa_global, temp_air, wind_speed, heat_loss_coeffs,
                   k, kwargs, outcome, lines>>

\* plt.plot(T_cell, label=coeffs), then the next key of the dictionary.
Plot ==
    /\ pc = "plot"
    /\ lines' = Append(lines, [label |-> k, data |-> T_cell])
    /\ k' = k + 1
    /\ pc' = IF k < Len(heat_loss_coeffs) THEN "call" ELSE "finish"
    /\ UNCHANGED <<poa_global, temp_air, wind_speed, heat_loss_coeffs,
                   kwargs, outcome, T_cell>>

\* The axes, the legend and plt.show().
Show ==
    /\ pc = "finish"
    /\ pc' = "shown"
    /\ UNCHANGED <<poa_global, temp_air, wind_speed, heat_loss_coeffs,
                   k, kwargs, outcome, T_cell, lines>>

Next == CallPvsystCell \/ Relabel \/ Plot \/ Show

Spec == Init /\ [][Next]_vars

\* ===================================================================
\* Properties of the computation (checked under SpecCompute)
\* ===================================================================

Returned == pc = "returned"

Succeeded == Returned /\ outcome.status = "ok"

Samples == 1..Len(poa_global.values)

\* The coefficients the call works with, the defaults written out: 0.9, 0.
AlphaUsed == IF kwargs.alpha = {} THEN 9 ELSE CHOOSE v \in kwargs.alpha : TRUE

EtaUsed == IF kwargs.eta_m = {} THEN 0 ELSE CHOOSE v \in kwargs.eta_m : TRUE

SameIndex ==
    /\ poa_global.index = temp_air.index
    /\ poa_global.index = wind_speed.index

\* u_c > 0, u_v >= 0, alpha and eta_m in [0, 1].
ContractCoefficients ==
    /\ kwargs.u_c > 0
    /\ kwargs.u_v >= 0
    /\ AlphaUsed \in 0..10
    /\ EtaUsed \in 0..10

\* Sample i of the call is the example of the specification.
ExampleSample(i) ==
    /\ poa_global.values[i] = 1000
    /\ temp_air.values[i] = 25
    /\ wind_speed.values[i] = 1
    /\ kwargs = [u_c |-> 290, u_v |-> 0, alpha |-> {}, eta_m |-> {}]

C2_Claim ==
    (/\ Returned
     /\ SameIndex
     /\ Samples # {}
     /\ (kwargs.u_c <= 0 \/ AlphaUsed \notin 0..10 \/ EtaUsed \notin 0..10))
        => outcome = Failure("InvalidCoefficient")

C5_Formula ==
    Succeeded =>
        /\ outcome.index = poa_global.index
        /\ Len(outcome.values) = Len(poa_global.values)
        /\ DOMAIN outcome.values = DOMAIN outcome.index

C5_Witness ==
    /\ Succeeded
    /\ Len(outcome.values) >= 2

\* C6: with u_c > 0 and u_v >= 0, whatever temp_air, wind_speed, alpha and
\* eta_m are, the result at a sample where poa_global is 0 is temp_air.
C6_Formula ==
    (Succeeded /\ kwargs.u_c > 0 /\ kwargs.u_v >= 0) =>
        \A i \in Samples :
            poa_global.values[i] = 0 => outcome.values[i] = <<temp_air.values[i], 1>>

C6_Witness ==
    /\ Succeeded
    /\ kwargs.u_c > 0
    /\ kwargs.u_v > 0
    /\ AlphaUsed > 10
    /\ EtaUsed > 10
    /\ \E i \in Samples : poa_global.values[i] = 0 /\ wind_speed.values[i] > 0

\* Samples i and j of one call differ in irradiance only, j having the more.
MoreIrradiance(i, j) ==
    /\ temp_air.values[i] = temp_air.values[j]
    /\ wind_speed.values[i] = wind_speed.values[j]
    /\ poa_global.values[i] < poa_global.values[j]

\* C7 as claimed: with coefficients anywhere in the contract's ranges,
\* more irradiance gives a strictly higher cell temperature.
C7_Claim ==
    (Succeeded /\ ContractCoefficients) =>
        \A i, j \in Samples :
            MoreIrradiance(i, j) => FracLess(outcome.values[i], outcome.values[j])

\* C7, amended: with coefficients in the contract's ranges and alpha > 0 and
\* eta_m < 1, more irradiance gives a strictly higher cell temperature.
C7_Formula ==
    (Succeeded /\ ContractCoefficients /\ AlphaUsed > 0 /\ EtaUsed < 10) =>
        \A i, j \in Samples :
            MoreIrradiance(i, j) => FracLess(outcome.values[i], outcome.values[j])

C7_Witness ==
    /\ Succeeded
    /\ ContractCoefficients
    /\ AlphaUsed > 0
    /\ EtaUsed < 10
    /\ kwargs.u_v > 0
    /\ \E i, j \in Samples : MoreIrradiance(i, j)

\* Samples i and j of one call differ in wind speed only, j having the more.
MoreWind(i, j) ==
    /\ temp_air.values[i] = temp_air.values[j]
    /\ poa_global.values[i] = poa_global.values[j]
    /\ wind_speed.values[i] < wind_speed.values[j]

\* With u_v = 0 the result does not depend on the wind speed.
WindIndependent ==
    kwargs.u_v = 0 =>
        \A i, j \in Samples :
            MoreWind(i, j) => outcome.values[i] = outcome.values[j]

\* C8 as claimed: with u_v > 0, poa_global > 0 and alpha, eta_m anywhere in
\* [0, 1], more wind gives a strictly lower cell temperature; with u_v = 0
\* the cell temperature does not depend on the wind.
C8_Claim ==
    (Succeeded /\ ContractCoefficients) =>
        /\ kwargs.u_v > 0 =>
              \A i, j \in Samples :
                  (MoreWind(i, j) /\ poa_global.values[i] > 0)
                      => FracLess(outcome.values[j], outcome.values[i])
        /\ WindIndependent

\* C8, amended: the strict decrease holds with alpha > 0 and eta_m < 1.
C8_Formula ==
    (Succeeded /\ ContractCoefficients) =>
        /\ (kwargs.u_v > 0 /\ AlphaUsed > 0 /\ EtaUsed < 10) =>
              \A i, j \in Samples :
                  (MoreWind(i, j) /\ poa_global.values[i] > 0)
                      => FracLess(outcome.values[j], outcome.values[i])
        /\ WindIndependent

C8_Witness ==
    /\ Succeeded
    /\ ContractCoefficients
    /\ kwargs.u_v > 0
    /\ AlphaUsed > 0
    /\ EtaUsed < 10
    /\ \E i, j \in Samples : MoreWind(i, j) /\ poa_global.values[i] > 0

\* ===================================================================
\* Properties of the comparison loop (checked under Spec)
\* ===================================================================

\* The keys of the dictionary, in insertion order.
Keys == 1..Len(heat_loss_coeffs)

\* The keys plotted so far.
Plotted == {lines[i].label : i \in 1..Len(lines)}

C10_Formula ==
    [][/\ poa_global' = poa_global
       /\ temp_air' = temp_air
       /\ wind_speed' = wind_speed
       /\ heat_loss_coeffs' = heat_loss_coeffs]_vars

\* A second set has been computed and its index relabelled, on the inputs
\* the loop started with.
C10_Witness ==
    /\ pc = "plot"
    /\ k >= 2
    /\ T_cell.index = [i \in 1..Len(poa_global.index) |->
                          strftime_H(poa_global.index[i])]
    /\ poa_global.index = TmyIndex(Len(poa_global.values))
    /\ temp_air.index = poa_global.index
    /\ wind_speed.index = poa_global.index

====
